---------------------------- MODULE Spec2Model ----------------------------
(***************************************************************************)
(* gist2repo (src/cmd/gist2repo/main.go): a pipeline of goroutines         *)
(*   listGists -> reposUrl -> cloneRepos -> mergeRepos                     *)
(* whose three error channels are fanned in by mergeErrorChs and logged    *)
(* by main.  Unbuffered channels are modelled as rendezvous (one action    *)
(* moves the sender and the receiver), buffered ones as bounded queues.    *)
(* Strings are tuples of one-character strings.                            *)
(***************************************************************************)
EXTENDS Naturals, Sequences, FiniteSets, Bags

(* ------------------------------ bounds -------------------------------- *)
MaxPages == 2      \* pages of the listing (Spec)
MaxGists == 2      \* gists of the listing, over all pages (Spec)
MaxFaults == 2     \* failures injected in one run (fetch, git, Abs, Chdir)
NLoad == 31        \* URLs handed to the Cloner in SpecLoad

(* ------------------------- program constants -------------------------- *)
limit == 30        \* make(chan struct{}, 30)
ErrChCap == 1      \* make(chan error, 1), in listGists, cloneRepos, mergeRepos

Streams == {"gists", "repos", "merge"}

(* ------------------------- the command line --------------------------- *)
FlagNames == {"token", "repo", "user"}
Absent == "<absent>"           \* the flag is not on the command line
FlagDefault == ""              \* the default of the three flag.StringVar calls
\* A flag is absent, passed with an empty value or passed with a value.
ArgValues == {Absent, "", "v"}
EnvValues == {"", "e"}
AllPassed == [f \in FlagNames |-> "v"]

(* ------------------------------ strings ------------------------------- *)
Letters == <<"a", "b", "c", "d", "e">>

baseDir == <<"t">>                       \* reposDir, the temporary root
GitCutset == {".", "g", "i", "t"}        \* the cutset ".git" of TrimRight

\* The pull URL of the n-th gist of the listing.
GistURL(n) == <<"h", "/", Letters[n], ".", "g", "i", "t">>

\* A descriptor (*github.Gist) and its accessor.
Gist(n) == [GitPullURL |-> GistURL(n)]
GetGitPullURL(gist) == gist.GitPullURL

RECURSIVE StripSlashes(_)
StripSlashes(s) ==
  IF s # <<>> /\ s[Len(s)] = "/" THEN StripSlashes(SubSeq(s, 1, Len(s) - 1)) ELSE s

RECURSIVE LastSegment(_)
LastSegment(s) ==
  IF s = <<>> \/ s[Len(s)] = "/" THEN <<>>
  ELSE Append(LastSegment(SubSeq(s, 1, Len(s) - 1)), s[Len(s)])

\* filepath.Base: "." for the empty path, trailing slashes dropped, "/" for a
\* path of slashes only, otherwise the last element.
Base(p) ==
  IF p = <<>> THEN <<".">>
  ELSE IF StripSlashes(p) = <<>> THEN <<"/">>
  ELSE LastSegment(StripSlashes(p))

\* strings.TrimRight(s, cutset): drops every trailing character of the cutset.
RECURSIVE TrimRight(_, _)
TrimRight(s, cutset) ==
  IF s # <<>> /\ s[Len(s)] \in cutset
  THEN TrimRight(SubSeq(s, 1, Len(s) - 1), cutset) ELSE s

repoPathToName(repo) == TrimRight(Base(repo), GitCutset)

\* filepath.Join(dir, name) for a clean dir: an empty element is ignored.
Join(dir, name) == IF name = <<>> THEN dir ELSE dir \o <<"/">> \o name

(* --------------------------- the remote API --------------------------- *)
\* client.Gists.List with opt.Page = n: page 0 is the first page; NextPage and
\* LastPage come from the Link header, which has no "next" and no "last" on the
\* last page.
PageOf(n) == IF n = 0 THEN 1 ELSE n
RespNextPage(p, P) == IF p < P THEN p + 1 ELSE 0
RespLastPage(p, P) == IF p < P THEN P ELSE 0

RECURSIVE Flatten(_)
Flatten(ps) == IF ps = <<>> THEN <<>> ELSE Head(ps) \o Flatten(Tail(ps))

RECURSIVE SumSeq(_)
SumSeq(s) == IF s = <<>> THEN 0 ELSE Head(s) + SumSeq(Tail(s))

\* The listing for page sizes sz: gists are numbered in page order.
Listing(sz) ==
  [k \in 1..Len(sz) |->
     [j \in 1..sz[k] |-> Gist(SumSeq(SubSeq(sz, 1, k - 1)) + j)]]

\* A page of the listing is empty only when the whole listing is.
PageSizes ==
  {<<0>>} \cup
  {sz \in UNION {[1..P -> 1..MaxGists] : P \in 1..MaxPages} : SumSeq(sz) <= MaxGists}

VARIABLES
  pages,        \* the remote listing: a sequence of pages of descriptors
  env,          \* the value of SYNC2REPO_TOKEN in the environment ("" if unset)
  argv,         \* per flag, the value passed on the command line, or Absent
  token, repoPath, userName,           \* the package-level variables
  mainpc,       \* main's position
  exit,         \* "running", "ok" (main returned), "fatal" (log.Fatal), "panic"
  tmpRoot,      \* the temporary root exists
  cwd,          \* the process working directory: "orig" or "dst"
  lpc, nextPage, lastPage, lgists,     \* listGists' goroutine
  gistsClosed,  \* gistsCh is closed
  epc, egist,   \* reposUrl's goroutine
  urlClosed,    \* urlCh is closed
  cpc, cwg, limitLen, tasks,           \* cloneRepos: loop, wg, len(limit), tasks
  spawned,      \* the task goroutines started by cloneRepos' loop
  attempts,     \* the executions of execGit("clone", ...)
  pathClosed,   \* pathCh is closed
  mpc, currDir, mrepo, mstage,         \* mergeRepos
  errBuf, errClosed,                   \* the three error channels
  fpc, ferr, awg, outClosed,           \* mergeErrorChs
  log,          \* what main has logged
  \* history
  requested,    \* the pages requested of the API, in order
  failedAt,     \* the index in requested of the failed fetch, 0 if none
  emitted,      \* the descriptors sent on gistsCh, in order
  cloneOk, cloneFailed,   \* the URLs whose clone command succeeded, failed
  received,     \* the paths the Merger has received, in order
  merged,       \* the paths whose four steps are over, in order
  mergeFailed,  \* a Merger git command has failed
  stagesRun,    \* the Merger's git commands run, with their outcomes
  setupFailed,  \* filepath.Abs or os.Chdir failed in mergeRepos
  sent,         \* per error channel, the errors sent on it, in order
  faults        \* the failures injected so far

vars == <<pages, env, argv, token, repoPath, userName, mainpc, exit, tmpRoot,
          cwd, lpc, nextPage, lastPage, lgists, gistsClosed, epc, egist,
          urlClosed, cpc, cwg, limitLen, tasks, pathClosed, mpc, currDir,
          mrepo, mstage, errBuf, errClosed, fpc, ferr, awg, outClosed, log,
          requested, failedAt, emitted, cloneOk, cloneFailed, received, merged,
          mergeFailed, setupFailed, sent, faults, spawned, attempts,
          stagesRun>>

cfgVars == <<env, argv, token, repoPath, userName>>
mainVars == <<mainpc, exit, tmpRoot>>
CanFail == faults < MaxFaults
listerVars == <<lpc, nextPage, lastPage, lgists, gistsClosed, requested,
                failedAt, emitted>>
extractVars == <<epc, egist, urlClosed>>
clonerVars == <<cpc, cwg, limitLen, tasks, pathClosed, cloneOk, cloneFailed,
                spawned, attempts>>
mergerVars == <<mpc, currDir, mrepo, mstage, cwd, received, merged, mergeFailed,
                setupFailed, stagesRun>>
chanVars == <<errBuf, errClosed, sent>>
aggVars == <<fpc, ferr, awg, outClosed, log>>

Running == exit = "running"

InitCommon ==
  /\ token = "" /\ repoPath = "" /\ userName = ""
  /\ mainpc = "envs" /\ exit = "running" /\ tmpRoot = FALSE /\ cwd = "orig"
  /\ lpc = "off" /\ nextPage = 0 /\ lastPage = 1 /\ lgists = <<>>
  /\ gistsClosed = FALSE
  /\ epc = "off" /\ egist = Gist(1) /\ urlClosed = FALSE
  /\ cpc = "off" /\ cwg = 0 /\ limitLen = 0 /\ tasks = EmptyBag
  /\ spawned = 0 /\ attempts = 0
  /\ pathClosed = FALSE
  /\ mpc = "off" /\ currDir = "" /\ mrepo = <<>> /\ mstage = 0
  /\ errBuf = [s \in Streams |-> <<>>]
  /\ errClosed = [s \in Streams |-> FALSE]
  /\ fpc = [s \in Streams |-> "off"]
  /\ ferr = [s \in Streams |-> <<>>]
  /\ awg = 0 /\ outClosed = FALSE /\ log = <<>>
  /\ requested = <<>> /\ failedAt = 0 /\ emitted = <<>>
  /\ cloneOk = {} /\ cloneFailed = {}
  /\ received = <<>> /\ merged = <<>> /\ mergeFailed = FALSE
  /\ stagesRun = <<>>
  /\ setupFailed = FALSE
  /\ sent = [s \in Streams |-> <<>>]
  /\ faults = 0

\* The runs of the pipeline: the three flags are passed and the environment
\* variable is unset, or --user is missing.
Init ==
  /\ pages \in {Listing(sz) : sz \in PageSizes}
  /\ env = ""
  /\ argv \in {AllPassed, [AllPassed EXCEPT !["user"] = Absent]}
  /\ InitCommon

(* -------------------------------- main --------------------------------- *)
\* The value flag.Parse leaves in a flag's variable: the value passed, or the
\* default that flag.StringVar stored.
FlagValue(name) == IF argv[name] = Absent THEN FlagDefault ELSE argv[name]

\* userName == "" || token == "" || repoPath == ""
ArgsMissing == userName = "" \/ token = "" \/ repoPath = ""

\* parseEnvs: token is set from the environment variable when it is not empty.
MainParseEnvs ==
  /\ Running /\ mainpc = "envs"
  /\ token' = IF env # "" THEN env ELSE token
  /\ mainpc' = "flags"
  /\ UNCHANGED <<pages, env, argv, repoPath, userName, faults, exit, tmpRoot,
                 listerVars, extractVars, clonerVars, mergerVars, chanVars,
                 aggVars>>

\* parseFlags: each flag.StringVar stores the flag's default in its variable
\* and flag.Parse then stores the value of every flag passed.
MainParseFlags ==
  /\ Running /\ mainpc = "flags"
  /\ token' = FlagValue("token")
  /\ repoPath' = FlagValue("repo")
  /\ userName' = FlagValue("user")
  /\ mainpc' = "args"
  /\ UNCHANGED <<pages, env, argv, faults, exit, tmpRoot, listerVars,
                 extractVars, clonerVars, mergerVars, chanVars, aggVars>>

\* main: the mandatory arguments are all present.
MainArgs ==
  /\ Running /\ mainpc = "args"
  /\ ~ArgsMissing
  /\ mainpc' = "tempdir"
  /\ UNCHANGED <<pages, cfgVars, faults, exit, tmpRoot, listerVars,
                 extractVars, clonerVars, mergerVars, chanVars, aggVars>>

\* One of the mandatory arguments is empty: log.Fatal.
MainArgsMissing ==
  /\ Running /\ mainpc = "args"
  /\ ArgsMissing
  /\ mainpc' = "exited" /\ exit' = "fatal"
  /\ UNCHANGED <<pages, cfgVars, faults, tmpRoot, listerVars, extractVars,
                 clonerVars, mergerVars, chanVars, aggVars>>

\* main: ioutil.TempDir succeeds; defer os.RemoveAll(reposDir).
MainTempDir ==
  /\ Running /\ mainpc = "tempdir"
  /\ mainpc' = "listGists" /\ tmpRoot' = TRUE
  /\ UNCHANGED <<pages, cfgVars, faults, exit, listerVars, extractVars,
                 clonerVars, mergerVars, chanVars, aggVars>>

\* ioutil.TempDir fails: log.Fatalf.
MainTempDirFail ==
  /\ Running /\ mainpc = "tempdir"
  /\ mainpc' = "exited" /\ exit' = "fatal"
  /\ UNCHANGED <<pages, cfgVars, faults, tmpRoot, listerVars, extractVars,
                 clonerVars, mergerVars, chanVars, aggVars>>

\* main calls listGists: the channels are made and the goroutine starts.
MainListGists ==
  /\ Running /\ mainpc = "listGists"
  /\ mainpc' = "cloneRepos"
  /\ lpc' = "loop"
  /\ UNCHANGED <<pages, cfgVars, faults, exit, tmpRoot, nextPage, lastPage,
                 lgists, gistsClosed, requested, failedAt, emitted,
                 extractVars, clonerVars, mergerVars, chanVars, aggVars>>

\* main calls reposUrl and cloneRepos: both goroutines start.
MainCloneRepos ==
  /\ Running /\ mainpc = "cloneRepos"
  /\ mainpc' = "mergeAbs"
  /\ epc' = "recv" /\ cpc' = "range"
  /\ UNCHANGED <<pages, cfgVars, faults, exit, tmpRoot, listerVars, egist,
                 urlClosed, cwg, spawned, limitLen, attempts, tasks,
                 pathClosed, cloneOk, cloneFailed, mergerVars, chanVars,
                 aggVars>>

(* ------------------------------ listGists ------------------------------ *)
\* A loop that stops before the last known page (a faulty variant of LoopCond).
LoopCondStrict == lastPage # 0 /\ nextPage < lastPage

\* A loop that does not stop at a last page of 0 (a faulty variant of
\* LoopCond).
LoopCondNoZero == nextPage <= lastPage

LoopCond == lastPage # 0 /\ nextPage <= lastPage

\* One iteration whose client.Gists.List succeeds: LastPage and NextPage are
\* taken from the response, and the page's gists are then sent one by one.
ListerFetchOk ==
  /\ Running /\ lpc = "loop" /\ LoopCond
  /\ LET p == PageOf(nextPage) IN
       /\ p \in 1..Len(pages)
       /\ requested' = Append(requested, nextPage)
       /\ lastPage' = RespLastPage(p, Len(pages))
       /\ nextPage' = RespNextPage(p, Len(pages))
       /\ lgists' = pages[p]
       /\ lpc' = IF pages[p] = <<>> THEN "loop" ELSE "emit"
  /\ UNCHANGED <<pages, cfgVars, faults, mainVars, cwd, gistsClosed, failedAt,
                 emitted, extractVars, clonerVars, mpc, currDir, mrepo, mstage,
                 received, merged, mergeFailed, stagesRun, setupFailed,
                 chanVars, aggVars>>

\* One iteration whose client.Gists.List fails.
ListerFetchFail ==
  /\ Running /\ lpc = "loop" /\ LoopCond
  /\ CanFail /\ faults' = faults + 1
  /\ requested' = Append(requested, nextPage)
  /\ failedAt' = Len(requested) + 1
  /\ lpc' = "errsend"
  /\ UNCHANGED <<pages, cfgVars, mainVars, cwd, nextPage, lastPage, lgists,
                 gistsClosed, emitted, extractVars, clonerVars, mpc, currDir,
                 mrepo, mstage, received, merged, mergeFailed, stagesRun,
                 setupFailed, chanVars, aggVars>>

\* The error is sent and the loop goes on: no break (a faulty variant of
\* ListerErrSend).
ListerErrSendContinue ==
  /\ Running /\ lpc = "errsend"
  /\ ~errClosed["gists"]
  /\ Len(errBuf["gists"]) < ErrChCap
  /\ LET e == <<"gists", "list", <<>>, Len(requested)>> IN
       /\ errBuf' = [errBuf EXCEPT !["gists"] = Append(@, e)]
       /\ sent' = [sent EXCEPT !["gists"] = Append(@, e)]
  /\ lpc' = "loop"
  /\ UNCHANGED <<pages, cfgVars, faults, mainVars, cwd, nextPage, lastPage,
                 lgists, gistsClosed, requested, failedAt, emitted,
                 extractVars, clonerVars, mpc, currDir, mrepo, mstage,
                 received, merged, mergeFailed, stagesRun, setupFailed,
                 errClosed, aggVars>>

\* errCh <- err; break
ListerErrSend ==
  /\ Running /\ lpc = "errsend"
  /\ ~errClosed["gists"]
  /\ Len(errBuf["gists"]) < ErrChCap
  /\ LET e == <<"gists", "list", <<>>, Len(requested)>> IN
       /\ errBuf' = [errBuf EXCEPT !["gists"] = Append(@, e)]
       /\ sent' = [sent EXCEPT !["gists"] = Append(@, e)]
  /\ lpc' = "closeErr"
  /\ UNCHANGED <<pages, cfgVars, faults, mainVars, cwd, nextPage, lastPage,
                 lgists, gistsClosed, requested, failedAt, emitted,
                 extractVars, clonerVars, mpc, currDir, mrepo, mstage,
                 received, merged, mergeFailed, stagesRun, setupFailed,
                 errClosed, aggVars>>

\* gistsCh <- gist, received by reposUrl's range loop (gistsCh is unbuffered).
ListerEmit ==
  /\ Running /\ lpc = "emit" /\ epc = "recv" /\ ~gistsClosed
  /\ emitted' = Append(emitted, Head(lgists))
  /\ egist' = Head(lgists)
  /\ epc' = "send"
  /\ lgists' = Tail(lgists)
  /\ lpc' = IF Tail(lgists) = <<>> THEN "loop" ELSE "emit"
  /\ UNCHANGED <<pages, cfgVars, faults, mainVars, cwd, nextPage, lastPage,
                 gistsClosed, requested, failedAt, urlClosed, clonerVars, mpc,
                 currDir, mrepo, mstage, received, merged, mergeFailed,
                 stagesRun, setupFailed, chanVars, aggVars>>

\* The loop is left (its condition is false, or break): close(errCh).
ListerCloseErr ==
  /\ Running
  /\ \/ lpc = "loop" /\ ~LoopCond
     \/ lpc = "closeErr"
  /\ errClosed' = [errClosed EXCEPT !["gists"] = TRUE]
  /\ lpc' = "closeGists"
  /\ UNCHANGED <<pages, cfgVars, faults, mainVars, cwd, nextPage, lastPage,
                 lgists, gistsClosed, requested, failedAt, emitted,
                 extractVars, clonerVars, mpc, currDir, mrepo, mstage,
                 received, merged, mergeFailed, stagesRun, setupFailed, errBuf,
                 sent, aggVars>>

\* The goroutine ends without close(gistsCh) (a faulty variant of
\* ListerCloseGists).
ListerCloseGistsSkip ==
  /\ Running /\ lpc = "closeGists"
  /\ lpc' = "done"
  /\ UNCHANGED <<pages, cfgVars, faults, mainVars, cwd, nextPage, lastPage,
                 lgists, gistsClosed, requested, failedAt, emitted,
                 extractVars, clonerVars, mpc, currDir, mrepo, mstage,
                 received, merged, mergeFailed, stagesRun, setupFailed,
                 chanVars, aggVars>>

\* close(gistsCh)
ListerCloseGists ==
  /\ Running /\ lpc = "closeGists"
  /\ gistsClosed' = TRUE
  /\ lpc' = "done"
  /\ UNCHANGED <<pages, cfgVars, faults, mainVars, cwd, nextPage, lastPage,
                 lgists, requested, failedAt, emitted, extractVars, clonerVars,
                 mpc, currDir, mrepo, mstage, received, merged, mergeFailed,
                 stagesRun, setupFailed, chanVars, aggVars>>

(* ------------------------------ reposUrl ------------------------------- *)
\* urlCh <- gist.GetGitPullURL(), received by cloneRepos' range loop (urlCh is
\* unbuffered), which does wg.Add(1) and starts the task's goroutine.
ClonerSpawn ==
  /\ Running /\ epc = "send" /\ cpc = "range" /\ ~urlClosed
  /\ epc' = "recv"
  /\ cwg' = cwg + 1
  /\ spawned' = spawned + 1
  /\ tasks' = tasks (+) SetToBag({[pc |-> "acquire", r |-> GetGitPullURL(egist),
                                   path |-> <<>>]})
  /\ UNCHANGED <<pages, cfgVars, faults, mainVars, listerVars, egist,
                 urlClosed, cpc, limitLen, attempts, pathClosed, cloneOk,
                 cloneFailed, mergerVars, chanVars, aggVars>>

\* reposUrl's range loop ends when gistsCh is closed: close(urlCh).
ExtractorClose ==
  /\ Running /\ epc = "recv" /\ gistsClosed
  /\ urlClosed' = TRUE
  /\ epc' = "done"
  /\ UNCHANGED <<pages, cfgVars, faults, mainVars, listerVars, egist,
                 clonerVars, mergerVars, chanVars, aggVars>>

(* ----------------------------- cloneRepos ------------------------------ *)
\* path := filepath.Join(baseDir, repoPathToName(r))
PathOf(r) == Join(baseDir, repoPathToName(r))

SetTask(t, u) == (tasks (-) SetToBag({t})) (+) SetToBag({u})

\* The task starts its clone without a slot of limit being free (a faulty
\* variant of TaskAcquire).
TaskAcquireNoGate(t) ==
  /\ Running /\ t.pc = "acquire"
  /\ limitLen' = limitLen + 1
  /\ tasks' = SetTask(t, [t EXCEPT !.pc = "clone"])
  /\ UNCHANGED <<pages, cfgVars, faults, mainVars, listerVars, extractVars,
                 cpc, attempts, cwg, spawned, pathClosed, cloneOk, cloneFailed,
                 mergerVars, chanVars, aggVars>>

\* limit <- struct{}{}
TaskAcquire(t) ==
  /\ Running /\ t.pc = "acquire"
  /\ limitLen < limit
  /\ limitLen' = limitLen + 1
  /\ tasks' = SetTask(t, [t EXCEPT !.pc = "clone"])
  /\ UNCHANGED <<pages, cfgVars, faults, mainVars, listerVars, extractVars,
                 cpc, attempts, cwg, spawned, pathClosed, cloneOk, cloneFailed,
                 mergerVars, chanVars, aggVars>>

\* path := filepath.Join(baseDir, repoPathToName(r)); execGit("clone", r, path)
\* returns nil.
TaskCloneOk(t) ==
  /\ Running /\ t.pc = "clone"
  /\ tasks' = SetTask(t, [t EXCEPT !.pc = "pathsend",
                                   !.path = PathOf(t.r)])
  /\ cloneOk' = cloneOk \cup {t.r}
  /\ attempts' = attempts + 1
  /\ UNCHANGED <<pages, cfgVars, faults, mainVars, listerVars, extractVars,
                 cpc, cwg, spawned, limitLen, pathClosed, cloneFailed,
                 mergerVars, chanVars, aggVars>>

\* The same with execGit returning an error.
TaskCloneFail(t) ==
  /\ Running /\ t.pc = "clone"
  /\ CanFail /\ faults' = faults + 1
  /\ tasks' = SetTask(t, [t EXCEPT !.pc = "errsend",
                                   !.path = PathOf(t.r)])
  /\ cloneFailed' = cloneFailed \cup {t.r}
  /\ attempts' = attempts + 1
  /\ UNCHANGED <<pages, cfgVars, mainVars, listerVars, extractVars, cpc, cwg,
                 spawned, limitLen, pathClosed, cloneOk, mergerVars, chanVars,
                 aggVars>>

\* errCh <- err; the task then goes on to send its path.
TaskErrSend(t) ==
  /\ Running /\ t.pc = "errsend"
  /\ ~errClosed["repos"]
  /\ Len(errBuf["repos"]) < ErrChCap
  /\ LET e == <<"repos", "clone", t.r, 0>> IN
       /\ errBuf' = [errBuf EXCEPT !["repos"] = Append(@, e)]
       /\ sent' = [sent EXCEPT !["repos"] = Append(@, e)]
  /\ tasks' = SetTask(t, [t EXCEPT !.pc = "pathsend"])
  /\ UNCHANGED <<pages, cfgVars, faults, mainVars, listerVars, extractVars,
                 cpc, cwg, spawned, limitLen, attempts, pathClosed, cloneOk,
                 cloneFailed, mergerVars, errClosed, aggVars>>

\* The path is received while the stages of the previous one are not over, as
\* by a second receiver of pathCh (a faulty variant of TaskPathSend).
TaskPathSendAnytime(t) ==
  /\ Running /\ t.pc = "pathsend" /\ mpc \in {"recv", "exec"} /\ ~pathClosed
  /\ tasks' = SetTask(t, [t EXCEPT !.pc = "release"])
  /\ mrepo' = t.path
  /\ mstage' = 1
  /\ mpc' = "exec"
  /\ received' = Append(received, t.path)
  /\ UNCHANGED <<pages, cfgVars, faults, mainVars, listerVars, extractVars,
                 cpc, cwg, spawned, limitLen, attempts, pathClosed, cloneOk,
                 cloneFailed, currDir, cwd, merged, mergeFailed, stagesRun,
                 setupFailed, chanVars, aggVars>>

\* pathCh <- path, received by mergeRepos' range loop (pathCh is unbuffered),
\* which starts the stages of this path.
TaskPathSend(t) ==
  /\ Running /\ t.pc = "pathsend" /\ mpc = "recv" /\ ~pathClosed
  /\ tasks' = SetTask(t, [t EXCEPT !.pc = "release"])
  /\ mrepo' = t.path
  /\ mstage' = 1
  /\ mpc' = "exec"
  /\ received' = Append(received, t.path)
  /\ UNCHANGED <<pages, cfgVars, faults, mainVars, listerVars, extractVars,
                 cpc, cwg, spawned, limitLen, attempts, pathClosed, cloneOk,
                 cloneFailed, currDir, cwd, merged, mergeFailed, stagesRun,
                 setupFailed, chanVars, aggVars>>

\* wg.Done() without <-limit: the slot stays taken (a faulty variant of
\* TaskRelease).
TaskReleaseNoSlot(t) ==
  /\ Running /\ t.pc = "release"
  /\ cwg' = cwg - 1
  /\ tasks' = tasks (-) SetToBag({t})
  /\ UNCHANGED <<pages, cfgVars, faults, mainVars, listerVars, extractVars,
                 cpc, spawned, limitLen, attempts, pathClosed, cloneOk,
                 cloneFailed, mergerVars, chanVars, aggVars>>

\* <-limit; wg.Done(), and the goroutine ends (neither statement blocks).
TaskRelease(t) ==
  /\ Running /\ t.pc = "release"
  /\ limitLen > 0
  /\ limitLen' = limitLen - 1
  /\ cwg' = cwg - 1
  /\ tasks' = tasks (-) SetToBag({t})
  /\ UNCHANGED <<pages, cfgVars, faults, mainVars, listerVars, extractVars,
                 cpc, spawned, attempts, pathClosed, cloneOk, cloneFailed,
                 mergerVars, chanVars, aggVars>>

\* The range loop over repos ends when urlCh is closed.
ClonerLoopExit ==
  /\ Running /\ cpc = "range" /\ urlClosed
  /\ cpc' = "wait"
  /\ UNCHANGED <<pages, cfgVars, faults, mainVars, listerVars, extractVars,
                 cwg, spawned, limitLen, attempts, tasks, pathClosed, cloneOk,
                 cloneFailed, mergerVars, chanVars, aggVars>>

\* close(limit); close(pathCh) without wg.Wait() (a faulty variant of
\* ClonerClosePath).
ClonerClosePathNoWait ==
  /\ Running /\ cpc = "wait"
  /\ pathClosed' = TRUE
  /\ cpc' = "closeErr"
  /\ UNCHANGED <<pages, cfgVars, faults, mainVars, listerVars, extractVars,
                 cwg, spawned, limitLen, attempts, tasks, cloneOk, cloneFailed,
                 mergerVars, chanVars, aggVars>>

\* wg.Wait(); close(limit); close(pathCh)
ClonerClosePath ==
  /\ Running /\ cpc = "wait" /\ cwg = 0
  /\ pathClosed' = TRUE
  /\ cpc' = "closeErr"
  /\ UNCHANGED <<pages, cfgVars, faults, mainVars, listerVars, extractVars,
                 cwg, spawned, limitLen, attempts, tasks, cloneOk, cloneFailed,
                 mergerVars, chanVars, aggVars>>

\* close(errCh)
ClonerCloseErr ==
  /\ Running /\ cpc = "closeErr"
  /\ errClosed' = [errClosed EXCEPT !["repos"] = TRUE]
  /\ cpc' = "done"
  /\ UNCHANGED <<pages, cfgVars, faults, mainVars, listerVars, extractVars,
                 cwg, spawned, limitLen, attempts, tasks, pathClosed, cloneOk,
                 cloneFailed, mergerVars, errBuf, sent, aggVars>>

(* ----------------------------- mergeRepos ------------------------------ *)
MergeErr(kind, repo, n) == <<"merge", kind, repo, n>>

\* remoteName := repoPathToName(repo)
RemoteName(repo) == repoPathToName(repo)

\* The commands of stages, in order.
Stages == <<"remote add", "fetch", "merge", "remote rm">>

\* The run of stage mstage for mrepo, with its outcome.
StageRun(ok) ==
  [repo |-> mrepo, cmd |-> Stages[mstage], remote |-> RemoteName(mrepo),
   ok |-> ok]

\* mergeRepos, called by main: filepath.Abs(".") succeeds.
MainMergeAbs ==
  /\ Running /\ mainpc = "mergeAbs"
  /\ currDir' = "orig"
  /\ mainpc' = "mergeChdir"
  /\ UNCHANGED <<pages, cfgVars, faults, exit, tmpRoot, listerVars,
                 extractVars, clonerVars, mpc, mrepo, mstage, cwd, received,
                 merged, mergeFailed, stagesRun, setupFailed, chanVars,
                 aggVars>>

\* filepath.Abs(".") fails: errCh <- err; close(errCh), and mergeRepos goes on.
MainMergeAbsFail ==
  /\ Running /\ mainpc = "mergeAbs"
  /\ CanFail /\ faults' = faults + 1
  /\ currDir' = ""
  /\ setupFailed' = TRUE
  /\ LET e == MergeErr("abs", <<>>, 0) IN
       /\ errBuf' = [errBuf EXCEPT !["merge"] = Append(@, e)]
       /\ sent' = [sent EXCEPT !["merge"] = Append(@, e)]
  /\ errClosed' = [errClosed EXCEPT !["merge"] = TRUE]
  /\ mainpc' = "mergeChdir"
  /\ UNCHANGED <<pages, cfgVars, exit, tmpRoot, listerVars, extractVars,
                 clonerVars, mpc, mrepo, mstage, cwd, received, merged,
                 mergeFailed, stagesRun, aggVars>>

\* os.Chdir(dstRepoPath) succeeds; the Merger's goroutine starts and mergeRepos
\* returns.
MainMergeChdir ==
  /\ Running /\ mainpc = "mergeChdir"
  /\ cwd' = "dst"
  /\ mpc' = "recv"
  /\ mainpc' = "mergeErrorChs"
  /\ UNCHANGED <<pages, cfgVars, faults, exit, tmpRoot, listerVars,
                 extractVars, clonerVars, currDir, mrepo, mstage, received,
                 merged, mergeFailed, stagesRun, setupFailed, chanVars,
                 aggVars>>

\* os.Chdir(dstRepoPath) fails: errCh <- err; close(errCh); the goroutine starts
\* all the same.
MainMergeChdirFail ==
  /\ Running /\ mainpc = "mergeChdir"
  /\ CanFail /\ faults' = faults + 1
  /\ ~errClosed["merge"]
  /\ Len(errBuf["merge"]) < ErrChCap
  /\ setupFailed' = TRUE
  /\ LET e == MergeErr("chdir", <<>>, 0) IN
       /\ errBuf' = [errBuf EXCEPT !["merge"] = Append(@, e)]
       /\ sent' = [sent EXCEPT !["merge"] = Append(@, e)]
  /\ errClosed' = [errClosed EXCEPT !["merge"] = TRUE]
  /\ mpc' = "recv"
  /\ mainpc' = "mergeErrorChs"
  /\ UNCHANGED <<pages, cfgVars, exit, tmpRoot, listerVars, extractVars,
                 clonerVars, currDir, mrepo, mstage, cwd, received, merged,
                 mergeFailed, stagesRun, aggVars>>

\* os.Chdir(dstRepoPath) fails after filepath.Abs failed: errCh <- err on the
\* closed channel panics in main's goroutine; the deferred os.RemoveAll runs and
\* the process dies.
MainMergeChdirPanic ==
  /\ Running /\ mainpc = "mergeChdir"
  /\ CanFail /\ faults' = faults + 1
  /\ errClosed["merge"]
  /\ setupFailed' = TRUE
  /\ tmpRoot' = FALSE
  /\ exit' = "panic"
  /\ mainpc' = "exited"
  /\ UNCHANGED <<pages, cfgVars, listerVars, extractVars, clonerVars, mpc,
                 currDir, mrepo, mstage, cwd, received, merged, mergeFailed,
                 stagesRun, chanVars, aggVars>>

\* After stage mstage of mrepo (over, or failed and reported: continue): the
\* next
\* stage, or the next path after the fourth.
AfterStage ==
  IF mstage = 4
  THEN /\ mpc' = "recv" /\ mstage' = 0
       /\ merged' = Append(merged, mrepo)
  ELSE /\ mpc' = "exec" /\ mstage' = mstage + 1
       /\ merged' = merged

\* execGit(args...) of stage mstage returns nil.
MergerExecOk ==
  /\ Running /\ mpc = "exec"
  /\ AfterStage
  /\ stagesRun' = Append(stagesRun, StageRun(TRUE))
  /\ UNCHANGED <<pages, cfgVars, faults, mainVars, listerVars, extractVars,
                 clonerVars, currDir, mrepo, cwd, received, mergeFailed,
                 setupFailed, chanVars, aggVars>>

\* execGit(args...) of stage mstage returns an error.
MergerExecFail ==
  /\ Running /\ mpc = "exec"
  /\ CanFail /\ faults' = faults + 1
  /\ mpc' = "errsend"
  /\ mergeFailed' = TRUE
  /\ stagesRun' = Append(stagesRun, StageRun(FALSE))
  /\ UNCHANGED <<pages, cfgVars, mainVars, listerVars, extractVars, clonerVars,
                 currDir, mrepo, mstage, cwd, received, merged, setupFailed,
                 chanVars, aggVars>>

\* errCh <- fmt.Errorf("%s: %v", repo, err); continue
MergerErrSend ==
  /\ Running /\ mpc = "errsend"
  /\ ~errClosed["merge"]
  /\ Len(errBuf["merge"]) < ErrChCap
  /\ LET e == MergeErr("stage", mrepo, mstage) IN
       /\ errBuf' = [errBuf EXCEPT !["merge"] = Append(@, e)]
       /\ sent' = [sent EXCEPT !["merge"] = Append(@, e)]
  /\ AfterStage
  /\ UNCHANGED <<pages, cfgVars, faults, mainVars, listerVars, extractVars,
                 clonerVars, currDir, mrepo, cwd, received, mergeFailed,
                 stagesRun, setupFailed, errClosed, aggVars>>

\* The range loop over repos ends when pathCh is closed.
MergerLoopExit ==
  /\ Running /\ mpc = "recv" /\ pathClosed
  /\ mpc' = "restore"
  /\ UNCHANGED <<pages, cfgVars, faults, mainVars, listerVars, extractVars,
                 clonerVars, currDir, mrepo, mstage, cwd, received, merged,
                 mergeFailed, stagesRun, setupFailed, chanVars, aggVars>>

\* os.Chdir(currDir) succeeds (currDir is "" when filepath.Abs failed, and
\* os.Chdir("") fails).
MergerRestore ==
  /\ Running /\ mpc = "restore"
  /\ currDir # ""
  /\ cwd' = currDir
  /\ mpc' = "close"
  /\ UNCHANGED <<pages, cfgVars, faults, mainVars, listerVars, extractVars,
                 clonerVars, currDir, mrepo, mstage, received, merged,
                 mergeFailed, stagesRun, setupFailed, chanVars, aggVars>>

\* os.Chdir(currDir) fails.
MergerRestoreFail ==
  /\ Running /\ mpc = "restore"
  /\ IF currDir = "" THEN faults' = faults
     ELSE CanFail /\ faults' = faults + 1
  /\ mpc' = "resterr"
  /\ UNCHANGED <<pages, cfgVars, mainVars, listerVars, extractVars, clonerVars,
                 currDir, mrepo, mstage, cwd, received, merged, mergeFailed,
                 stagesRun, setupFailed, chanVars, aggVars>>

\* errCh <- err, after the failed os.Chdir(currDir)
MergerRestoreErrSend ==
  /\ Running /\ mpc = "resterr"
  /\ ~errClosed["merge"]
  /\ Len(errBuf["merge"]) < ErrChCap
  /\ LET e == MergeErr("restore", <<>>, 0) IN
       /\ errBuf' = [errBuf EXCEPT !["merge"] = Append(@, e)]
       /\ sent' = [sent EXCEPT !["merge"] = Append(@, e)]
  /\ mpc' = "close"
  /\ UNCHANGED <<pages, cfgVars, faults, mainVars, listerVars, extractVars,
                 clonerVars, currDir, mrepo, mstage, cwd, received, merged,
                 mergeFailed, stagesRun, setupFailed, errClosed, aggVars>>

\* close(errCh), the goroutine's last statement
MergerClose ==
  /\ Running /\ mpc = "close"
  /\ ~errClosed["merge"]
  /\ errClosed' = [errClosed EXCEPT !["merge"] = TRUE]
  /\ mpc' = "done"
  /\ UNCHANGED <<pages, cfgVars, faults, mainVars, listerVars, extractVars,
                 clonerVars, currDir, mrepo, mstage, cwd, received, merged,
                 mergeFailed, stagesRun, setupFailed, errBuf, sent, aggVars>>

\* A send on errCh, or close(errCh), in the goroutine after mergeRepos has
\* closed
\* errCh: the goroutine panics and the process dies (main's deferred call does
\* not run).
MergerPanic ==
  /\ Running /\ mpc \in {"errsend", "resterr", "close"}
  /\ errClosed["merge"]
  /\ exit' = "panic"
  /\ UNCHANGED <<pages, cfgVars, faults, mainpc, tmpRoot, listerVars,
                 extractVars, clonerVars, mergerVars, chanVars, aggVars>>

(* ---------------------------- mergeErrorChs ---------------------------- *)
\* main calls mergeErrorChs: wg.Add(1) and one forwarder per channel, and the
\* goroutine that waits and closes out.
MainMergeErrorChs ==
  /\ Running /\ mainpc = "mergeErrorChs"
  /\ fpc' = [s \in Streams |-> "recv"]
  /\ awg' = Cardinality(Streams)
  /\ mainpc' = "loop"
  /\ UNCHANGED <<pages, cfgVars, faults, exit, tmpRoot, listerVars,
                 extractVars, clonerVars, mergerVars, chanVars, ferr,
                 outClosed, log>>

\* A forwarder's range loop receives the next error of its channel.
ForwarderRecv(s) ==
  /\ Running /\ fpc[s] = "recv"
  /\ errBuf[s] # <<>>
  /\ ferr' = [ferr EXCEPT ![s] = Head(errBuf[s])]
  /\ errBuf' = [errBuf EXCEPT ![s] = Tail(@)]
  /\ fpc' = [fpc EXCEPT ![s] = "send"]
  /\ UNCHANGED <<pages, cfgVars, faults, mainVars, listerVars, extractVars,
                 clonerVars, mergerVars, errClosed, sent, awg, outClosed, log>>

\* out <- err, received by main's range loop (out is unbuffered): log.Println.
MainLog(s) ==
  /\ Running /\ fpc[s] = "send" /\ mainpc = "loop" /\ ~outClosed
  /\ log' = Append(log, ferr[s])
  /\ fpc' = [fpc EXCEPT ![s] = "recv"]
  /\ UNCHANGED <<pages, cfgVars, faults, mainVars, listerVars, extractVars,
                 clonerVars, mergerVars, chanVars, ferr, awg, outClosed>>

\* A forwarder that stops as soon as its channel is closed, buffered error or
\* not (a faulty variant of ForwarderDone).
ForwarderDoneNoDrain(s) ==
  /\ Running /\ fpc[s] = "recv"
  /\ errClosed[s]
  /\ fpc' = [fpc EXCEPT ![s] = "done"]
  /\ awg' = awg - 1
  /\ UNCHANGED <<pages, cfgVars, faults, mainVars, listerVars, extractVars,
                 clonerVars, mergerVars, chanVars, ferr, outClosed, log>>

\* A forwarder's range loop ends, its channel closed and empty: wg.Done().
ForwarderDone(s) ==
  /\ Running /\ fpc[s] = "recv"
  /\ errBuf[s] = <<>> /\ errClosed[s]
  /\ fpc' = [fpc EXCEPT ![s] = "done"]
  /\ awg' = awg - 1
  /\ UNCHANGED <<pages, cfgVars, faults, mainVars, listerVars, extractVars,
                 clonerVars, mergerVars, chanVars, ferr, outClosed, log>>

\* close(out) without wg.Wait() (a faulty variant of CloserClose).
CloserCloseNoWait ==
  /\ Running /\ mainpc = "loop" /\ ~outClosed
  /\ outClosed' = TRUE
  /\ UNCHANGED <<pages, cfgVars, faults, mainVars, listerVars, extractVars,
                 clonerVars, mergerVars, chanVars, fpc, ferr, awg, log>>

\* wg.Wait(); close(out)
CloserClose ==
  /\ Running /\ mainpc = "loop" /\ ~outClosed
  /\ awg = 0
  /\ outClosed' = TRUE
  /\ UNCHANGED <<pages, cfgVars, faults, mainVars, listerVars, extractVars,
                 clonerVars, mergerVars, chanVars, fpc, ferr, awg, log>>

\* main's range loop ends when out is closed; main returns and the deferred
\* os.RemoveAll(reposDir) runs.
MainExit ==
  /\ Running /\ mainpc = "loop" /\ outClosed
  /\ tmpRoot' = FALSE
  /\ exit' = "ok"
  /\ mainpc' = "exited"
  /\ UNCHANGED <<pages, cfgVars, faults, listerVars, extractVars, clonerVars,
                 mergerVars, chanVars, aggVars>>

(* --------------------------- specification ---------------------------- *)
TaskStep ==
  \E t \in BagToSet(tasks) :
    \/ TaskAcquire(t)
    \/ TaskCloneOk(t)
    \/ TaskCloneFail(t)
    \/ TaskErrSend(t)
    \/ TaskPathSend(t)
    \/ TaskRelease(t)

Next ==
  \/ MainParseEnvs \/ MainParseFlags
  \/ MainArgs \/ MainArgsMissing \/ MainTempDir \/ MainTempDirFail
  \/ MainListGists \/ MainCloneRepos
  \/ MainMergeAbs \/ MainMergeAbsFail
  \/ MainMergeChdir \/ MainMergeChdirFail \/ MainMergeChdirPanic
  \/ MainMergeErrorChs \/ MainExit
  \/ ListerFetchOk \/ ListerFetchFail \/ ListerErrSend \/ ListerEmit
  \/ ListerCloseErr \/ ListerCloseGists
  \/ ClonerSpawn \/ ExtractorClose
  \/ TaskStep
  \/ ClonerLoopExit \/ ClonerClosePath \/ ClonerCloseErr
  \/ MergerExecOk \/ MergerExecFail \/ MergerErrSend \/ MergerLoopExit
  \/ MergerRestore \/ MergerRestoreFail \/ MergerRestoreErrSend
  \/ MergerClose \/ MergerPanic
  \/ \E s \in Streams : ForwarderRecv(s) \/ MainLog(s) \/ ForwarderDone(s)
  \/ CloserClose

Spec == Init /\ [][Next]_vars

(* ----------------------- the Cloner under load ------------------------ *)
\* More URLs than limit has slots.  The run starts where main has set the
\* pipeline up, the whole listing (one page of NLoad gists) has reached the
\* Cloner, whose range loop is over, and no task has run yet; the Lister and
\* its forwarder are done.  Every git command succeeds.  The descriptors carry
\* the same pull URL, so that the tasks form a multiset.
InitLoad ==
  /\ pages = <<[j \in 1..NLoad |-> Gist(1)]>>
  /\ env = "" /\ argv = AllPassed
  /\ token = "v" /\ repoPath = "v" /\ userName = "v"
  /\ mainpc = "loop" /\ exit = "running" /\ tmpRoot = TRUE /\ cwd = "dst"
  /\ lpc = "done" /\ nextPage = 0 /\ lastPage = 0 /\ lgists = <<>>
  /\ gistsClosed = TRUE
  /\ epc = "done" /\ egist = Gist(1) /\ urlClosed = TRUE
  /\ cpc = "wait" /\ cwg = NLoad /\ limitLen = 0
  /\ spawned = NLoad /\ attempts = 0
  /\ tasks = [t \in {[pc |-> "acquire", r |-> GistURL(1), path |-> <<>>]}
                |-> NLoad]
  /\ pathClosed = FALSE
  /\ mpc = "recv" /\ currDir = "orig" /\ mrepo = <<>> /\ mstage = 0
  /\ errBuf = [s \in Streams |-> <<>>]
  /\ errClosed = [s \in Streams |-> s = "gists"]
  /\ fpc = [s \in Streams |-> IF s = "gists" THEN "done" ELSE "recv"]
  /\ ferr = [s \in Streams |-> <<>>]
  /\ awg = Cardinality(Streams) - 1 /\ outClosed = FALSE /\ log = <<>>
  /\ requested = <<0>> /\ failedAt = 0
  /\ emitted = [j \in 1..NLoad |-> Gist(1)]
  /\ cloneOk = {} /\ cloneFailed = {}
  /\ received = <<>> /\ merged = <<>> /\ mergeFailed = FALSE
  /\ stagesRun = <<>>
  /\ setupFailed = FALSE
  /\ sent = [s \in Streams |-> <<>>]
  /\ faults = 0

TaskStepLoad ==
  \E t \in BagToSet(tasks) :
    \/ TaskAcquire(t)
    \/ TaskCloneOk(t)
    \/ TaskPathSend(t)
    \/ TaskRelease(t)

NextLoad ==
  \/ TaskStepLoad
  \/ ClonerClosePath \/ ClonerCloseErr
  \/ MergerExecOk \/ MergerLoopExit \/ MergerRestore \/ MergerClose
  \/ \E s \in Streams : ForwarderDone(s)
  \/ CloserClose
  \/ MainExit

SpecLoad == InitLoad /\ [][NextLoad]_vars

(* ------------------ the Cloner at its ceiling, with a failure ---------- *)
\* The run starts in a state of SpecLoad: all the tasks but two have taken a
\* slot and cloned, and wait to hand their paths to the Merger; two have not
\* started.  One clone command may now fail.
InitSlots ==
  /\ pages = <<[j \in 1..NLoad |-> Gist(1)]>>
  /\ env = "" /\ argv = AllPassed
  /\ token = "v" /\ repoPath = "v" /\ userName = "v"
  /\ mainpc = "loop" /\ exit = "running" /\ tmpRoot = TRUE /\ cwd = "dst"
  /\ lpc = "done" /\ nextPage = 0 /\ lastPage = 0 /\ lgists = <<>>
  /\ gistsClosed = TRUE
  /\ epc = "done" /\ egist = Gist(1) /\ urlClosed = TRUE
  /\ cpc = "wait" /\ cwg = NLoad /\ limitLen = NLoad - 2
  /\ spawned = NLoad /\ attempts = NLoad - 2
  /\ tasks =
       [t \in {[pc |-> "pathsend", r |-> GistURL(1),
                path |-> PathOf(GistURL(1))],
               [pc |-> "acquire", r |-> GistURL(1), path |-> <<>>]}
          |-> IF t.pc = "acquire" THEN 2 ELSE NLoad - 2]
  /\ pathClosed = FALSE
  /\ mpc = "recv" /\ currDir = "orig" /\ mrepo = <<>> /\ mstage = 0
  /\ errBuf = [s \in Streams |-> <<>>]
  /\ errClosed = [s \in Streams |-> s = "gists"]
  /\ fpc = [s \in Streams |-> IF s = "gists" THEN "done" ELSE "recv"]
  /\ ferr = [s \in Streams |-> <<>>]
  /\ awg = Cardinality(Streams) - 1 /\ outClosed = FALSE /\ log = <<>>
  /\ requested = <<0>> /\ failedAt = 0
  /\ emitted = [j \in 1..NLoad |-> Gist(1)]
  /\ cloneOk = {GistURL(1)} /\ cloneFailed = {}
  /\ received = <<>> /\ merged = <<>> /\ mergeFailed = FALSE
  /\ stagesRun = <<>>
  /\ setupFailed = FALSE
  /\ sent = [s \in Streams |-> <<>>]
  /\ faults = 0

TaskStepSlots ==
  \E t \in BagToSet(tasks) :
    \/ TaskAcquire(t)
    \/ TaskCloneOk(t)
    \/ cloneFailed = {} /\ TaskCloneFail(t)
    \/ TaskErrSend(t)
    \/ TaskPathSend(t)
    \/ TaskRelease(t)

NextSlots ==
  \/ TaskStepSlots
  \/ ClonerClosePath \/ ClonerCloseErr
  \/ MergerExecOk \/ MergerLoopExit \/ MergerRestore \/ MergerClose
  \/ \E s \in Streams : ForwarderRecv(s) \/ MainLog(s) \/ ForwarderDone(s)
  \/ CloserClose
  \/ MainExit

SpecSlots == InitSlots /\ [][NextSlots]_vars

(* ----------------------------- the start-up --------------------------- *)
\* The start of main for every environment and command line, up to the check of
\* the mandatory arguments.
InitArgs ==
  /\ pages = Listing(<<0>>)
  /\ env \in EnvValues
  /\ argv \in [FlagNames -> ArgValues]
  /\ InitCommon

NextArgs == MainParseEnvs \/ MainParseFlags \/ MainArgs \/ MainArgsMissing

SpecArgs == InitArgs /\ [][NextArgs]_vars

(* --------------------------- the names of clones ----------------------- *)
\* Pull URLs host/segment: segments with and without the suffix ".git", one of
\* them ending in a character of the suffix before it.
UrlHosts == {<<"h">>, <<"k">>}
UrlSegments ==
  {<<"a">>, <<"a", ".", "g", "i", "t">>, <<"a", "t", ".", "g", "i", "t">>,
   <<"b", ".", "g", "i", "t">>}
Urls == {h \o <<"/">> \o sg : h \in UrlHosts, sg \in UrlSegments}

\* A listing of one page with two gists of distinct pull URLs.  The run starts
\* as in InitLoad: both URLs have reached the Cloner and no task has run yet.
InitUrls ==
  /\ \E u1 \in Urls : \E u2 \in Urls \ {u1} :
       /\ pages = <<<<[GitPullURL |-> u1], [GitPullURL |-> u2]>>>>
       /\ tasks = SetToBag({[pc |-> "acquire", r |-> u1, path |-> <<>>],
                            [pc |-> "acquire", r |-> u2, path |-> <<>>]})
       /\ egist = [GitPullURL |-> u2]
  /\ emitted = pages[1]
  /\ env = "" /\ argv = AllPassed
  /\ token = "v" /\ repoPath = "v" /\ userName = "v"
  /\ mainpc = "loop" /\ exit = "running" /\ tmpRoot = TRUE /\ cwd = "dst"
  /\ lpc = "done" /\ nextPage = 0 /\ lastPage = 0 /\ lgists = <<>>
  /\ gistsClosed = TRUE
  /\ epc = "done" /\ urlClosed = TRUE
  /\ cpc = "wait" /\ cwg = 2 /\ limitLen = 0
  /\ spawned = 2 /\ attempts = 0
  /\ pathClosed = FALSE
  /\ mpc = "recv" /\ currDir = "orig" /\ mrepo = <<>> /\ mstage = 0
  /\ errBuf = [s \in Streams |-> <<>>]
  /\ errClosed = [s \in Streams |-> s = "gists"]
  /\ fpc = [s \in Streams |-> IF s = "gists" THEN "done" ELSE "recv"]
  /\ ferr = [s \in Streams |-> <<>>]
  /\ awg = Cardinality(Streams) - 1 /\ outClosed = FALSE /\ log = <<>>
  /\ requested = <<0>> /\ failedAt = 0
  /\ cloneOk = {} /\ cloneFailed = {}
  /\ received = <<>> /\ merged = <<>> /\ mergeFailed = FALSE
  /\ stagesRun = <<>>
  /\ setupFailed = FALSE
  /\ sent = [s \in Streams |-> <<>>]
  /\ faults = 0

SpecUrls == InitUrls /\ [][NextLoad]_vars

(* ------------------------------ the claims ----------------------------- *)
RECURSIVE SumCopies(_)
SumCopies(S) ==
  IF S = {} THEN 0
  ELSE LET t == CHOOSE x \in S : TRUE IN CopiesIn(t, tasks) + SumCopies(S \ {t})

\* The number of tasks whose position is in pcs.
NumTasks(pcs) == SumCopies({t \in BagToSet(tasks) : t.pc \in pcs})

Range(q) == {q[i] : i \in 1..Len(q)}

IsPrefix(p, q) == Len(p) <= Len(q) /\ p = SubSeq(q, 1, Len(p))

\* C1: at most limit (30) tasks execute the clone command at the same time,
\* however many URLs the Cloner has received.
C1_CloneCeiling == NumTasks({"clone"}) <= limit

\* C1's case: every slot is taken by a task executing its clone and one more
\* task waits for a slot.
C1_Witness == NumTasks({"clone"}) = limit /\ NumTasks({"acquire"}) >= 1

\* C2: the Merger never receives the path of a URL whose clone failed.
C2_FailedCloneNotMerged == \A r \in cloneFailed : PathOf(r) \notin Range(received)

\* C3: the Merger's sequences follow the order of reception, each path once, and
\* when the Merger's error channel is closed no emitted path is left: pathCh is
\* closed, no task is left and every received path has had its sequence.
C3_MergedOnceInOrder ==
  /\ IsPrefix(merged, received)
  /\ Len(received) <= Len(merged) + 1
  /\ errClosed["merge"] =>
       pathClosed /\ tasks = EmptyBag /\ merged = received

\* C4: a Merger command that is executing (or whose error is being reported)
\* belongs to the last received path, and the sequences of all the paths
\* received before it are over; between two sequences all of them are.
C4_MergesSequential ==
  IF mpc \in {"exec", "errsend"}
  THEN /\ mstage \in 1..4
       /\ received # <<>>
       /\ mrepo = received[Len(received)]
       /\ merged = SubSeq(received, 1, Len(received) - 1)
  ELSE mstage = 0 /\ merged = received

\* C4's case: the first path's sequence is over and the second path's first
\* command is executing.
C4_Witness == Len(merged) = 1 /\ mpc = "exec" /\ mstage = 1 /\ Len(received) = 2

\* C5: the process never dies of a panic, and log.Fatal happens only before the
\* pipeline is started.
C5_NoCrash == exit # "panic" /\ (exit = "fatal" => lpc = "off")

\* The errors of channel s that main has logged, in order.
Logged(s) == SelectSeq(log, LAMBDA e : e[1] = s)
\* The error a forwarder holds between its receive and its send on out.
Held(s) == IF fpc[s] = "send" THEN <<ferr[s]>> ELSE <<>>

\* C6: every error sent on a channel is logged, held by the channel's forwarder
\* or still in the channel, once and in the order sent; when out is closed
\* every one of them has been logged.
C6_ErrorsYieldedOnce ==
  \A s \in Streams :
    /\ sent[s] = Logged(s) \o Held(s) \o errBuf[s]
    /\ outClosed => Logged(s) = sent[s]

\* C6's case: out is closed after two errors went through the same channel.
C6_Witness == outClosed /\ \E s \in Streams : Len(sent[s]) = 2

\* C7: out is closed only when every input channel is closed and empty and its
\* forwarder is over (so none sends on out afterwards).
C7_OutClosedLast ==
  outClosed => \A s \in Streams : errClosed[s] /\ errBuf[s] = <<>> /\ fpc[s] = "done"

\* C7's case: out is closed after errors were forwarded.
C7_Witness == outClosed /\ log # <<>>

\* main has set the pipeline up and neither filepath.Abs nor os.Chdir failed.
PipelineUp == mainpc = "loop" /\ ~setupFailed

\* Every stage has closed its channels, out is closed and main has returned.
AllOver ==
  /\ exit = "ok" /\ outClosed
  /\ gistsClosed /\ urlClosed /\ pathClosed
  /\ \A s \in Streams : errClosed[s]
  /\ lpc = "done" /\ epc = "done" /\ cpc = "done" /\ mpc = "done"
  /\ tasks = EmptyBag

\* Next is enabled: one of its actions is.
NextEnabled ==
  \/ ENABLED MainExit \/ ENABLED CloserClose
  \/ \E s \in Streams :
       ENABLED ForwarderRecv(s) \/ ENABLED MainLog(s) \/ ENABLED ForwarderDone(s)
  \/ ENABLED ListerFetchOk \/ ENABLED ListerFetchFail \/ ENABLED ListerErrSend
  \/ ENABLED ListerEmit \/ ENABLED ListerCloseErr \/ ENABLED ListerCloseGists
  \/ ENABLED ClonerSpawn \/ ENABLED ExtractorClose
  \/ ENABLED ClonerLoopExit \/ ENABLED ClonerClosePath \/ ENABLED ClonerCloseErr
  \/ ENABLED MergerExecOk \/ ENABLED MergerExecFail \/ ENABLED MergerErrSend
  \/ ENABLED MergerLoopExit \/ ENABLED MergerRestore \/ ENABLED MergerRestoreFail
  \/ ENABLED MergerRestoreErrSend \/ ENABLED MergerClose \/ ENABLED MergerPanic
  \/ ENABLED TaskStep
  \/ ENABLED MainParseEnvs \/ ENABLED MainParseFlags
  \/ ENABLED MainArgs \/ ENABLED MainArgsMissing
  \/ ENABLED MainTempDir \/ ENABLED MainTempDirFail
  \/ ENABLED MainListGists \/ ENABLED MainCloneRepos
  \/ ENABLED MainMergeAbs \/ ENABLED MainMergeAbsFail
  \/ ENABLED MainMergeChdir \/ ENABLED MainMergeChdirFail
  \/ ENABLED MainMergeChdirPanic \/ ENABLED MainMergeErrorChs

\* The places of each goroutine, numbered in program order (a loop's places
\* share a number).
MainRank ==
  [envs |-> 1, flags |-> 2, args |-> 3, tempdir |-> 4, listGists |-> 5,
   cloneRepos |-> 6, mergeAbs |-> 7, mergeChdir |-> 8, mergeErrorChs |-> 9,
   loop |-> 10, exited |-> 11]
ListerRank ==
  [off |-> 1, loop |-> 2, emit |-> 2, errsend |-> 3, closeErr |-> 4,
   closeGists |-> 5, done |-> 6]
ExtractorRank == [off |-> 1, send |-> 2, recv |-> 3, done |-> 4]
ClonerRank == [off |-> 1, range |-> 2, wait |-> 3, closeErr |-> 4, done |-> 5]
TaskRank == [acquire |-> 1, clone |-> 2, errsend |-> 3, pathsend |-> 4, release |-> 5]
MergerRank ==
  [off |-> 1, recv |-> 2, exec |-> 2, errsend |-> 2, restore |-> 3, resterr |-> 4,
   close |-> 5, done |-> 6]

RECURSIVE SumRank(_)
SumRank(S) ==
  IF S = {} THEN 0
  ELSE LET t == CHOOSE x \in S : TRUE IN
         CopiesIn(t, tasks) * TaskRank[t.pc] + SumRank(S \ {t})

\* The tasks that have ended: every emitted gist is with reposUrl, a live task
\* or an ended one.
TasksOver == Len(emitted) - (IF epc = "send" THEN 1 ELSE 0) - cwg

ForwardRank(s) ==
  Len(errBuf[s]) + 2 * Len(Held(s)) + 3 * Len(Logged(s))
  + (IF fpc[s] = "done" THEN 1 ELSE 0)

\* A measure of the work done: every step of the program raises it.
Rank ==
    MainRank[mainpc] + (IF exit = "running" THEN 0 ELSE 1)
  + 2 * Len(requested) + 2 * Len(emitted) + ListerRank[lpc]
  + ExtractorRank[epc] + ClonerRank[cpc]
  + SumRank(BagToSet(tasks)) + 6 * TasksOver
  + 10 * Len(merged) + MergerRank[mpc]
  + (IF mpc \in {"exec", "errsend"}
     THEN 2 * mstage + (IF mpc = "errsend" THEN 1 ELSE 0) ELSE 0)
  + ForwardRank("gists") + ForwardRank("repos") + ForwardRank("merge")
  + (IF outClosed THEN 1 ELSE 0)

\* Every step of the program raises Rank: no run goes on for ever, and a run
\* in which every enabled step is eventually taken ends in a state where Next
\* is not enabled.
RankRises == [][Rank' > Rank]_vars

\* C8: once the pipeline is up, whatever page fetches, clones and merge steps
\* fail, some step can be taken until every stage has closed its channels, out
\* is closed and main has returned (with RankRises: the run ends there).  With
\* no failure at all nothing is logged.
C8_PipelineEnds ==
  /\ PipelineUp /\ ~AllOver => NextEnabled
  /\ exit = "ok" /\ ~setupFailed => AllOver /\ (faults = 0 => log = <<>>)

\* C8's case: main has returned after a run of two gists in which fetches,
\* clones or merge steps failed.
C8_Witness == AllOver /\ faults = MaxFaults /\ Len(received) = 2

\* C9: with no failed fetch the Lister emits the descriptors of the pages in
\* page
\* order, each once, and ends with both channels closed and no error sent.
C9_ListerEmitsAll ==
  failedAt = 0 =>
    /\ IsPrefix(emitted, Flatten(pages))
    /\ sent["gists"] = <<>>
    /\ lpc = "done" =>
         emitted = Flatten(pages) /\ gistsClosed /\ errClosed["gists"]

\* C9's case: the Lister is over, having emitted two pages without a failure.
C9_Witness ==
  lpc = "done" /\ failedAt = 0 /\ Len(pages) = 2 /\ Len(requested) = 2
  /\ Len(emitted) = 2

\* C10: after the k-th fetch fails no page is requested any more, exactly one
\* error is sent, and the Lister ends having emitted the descriptors of pages
\* 1..k-1, with both channels closed; when main returns every emitted
\* descriptor has had its clone attempt.
C10_ListerStopsAtFailure ==
  failedAt # 0 =>
    /\ Len(requested) = failedAt
    /\ Len(sent["gists"]) <= 1
    /\ lpc = "done" =>
         /\ emitted = Flatten(SubSeq(pages, 1, failedAt - 1))
         /\ Len(sent["gists"]) = 1
         /\ gistsClosed /\ errClosed["gists"]
    /\ exit = "ok" =>
         \A i \in 1..Len(emitted) :
           GetGitPullURL(emitted[i]) \in cloneOk \cup cloneFailed

\* C10's case: the fetch of the second page failed and main has returned.
C10_Witness == failedAt = 2 /\ exit = "ok" /\ emitted # <<>>

TaskPcs == {"acquire", "clone", "errsend", "pathsend", "release"}

\* C11: every URL the Cloner has received has started one task, which runs the
\* clone command once (the URLs of a run are distinct: no URL is cloned twice,
\* nor again after a failure), and pathCh and the Cloner's errCh are closed
\* only when no task is left, every task having made its attempt and its sends.
C11_OneTaskOneAttempt ==
  /\ spawned = Len(emitted) - (IF epc = "send" THEN 1 ELSE 0)
  /\ cwg = NumTasks(TaskPcs)
  /\ attempts = NumTasks({"errsend", "pathsend", "release"}) + (spawned - cwg)
  /\ attempts = Cardinality(cloneOk \cup cloneFailed)
  /\ cloneOk \cap cloneFailed = {}
  /\ errClosed["repos"] => pathClosed
  /\ pathClosed =>
       /\ tasks = EmptyBag /\ attempts = spawned
       /\ Len(received) = spawned
       /\ Len(sent["repos"]) = Cardinality(cloneFailed)

\* C11's case: the Cloner has closed both channels after two tasks, one of
\* them with a failed clone.
C11_Witness ==
  errClosed["repos"] /\ spawned = 2 /\ Cardinality(cloneFailed) = 1

\* C12: when the process has ended, the temporary root does not exist.
C12_TempRootRemoved == exit # "running" => ~tmpRoot

\* C13: with the environment variable set and no --token flag, once parseEnvs
\* and parseFlags have run the credential is the environment's value, and the
\* start-up check fails only for a missing user or repository.
C13_EnvFallback ==
  (mainpc \notin {"envs", "flags"} /\ env # "" /\ argv["token"] = Absent) =>
    /\ token = env
    /\ exit = "fatal" => userName = "" \/ repoPath = ""

GitSuffix == <<".", "g", "i", "t">>

HasSuffix(s, suf) ==
  Len(s) >= Len(suf) /\ SubSeq(s, Len(s) - Len(suf) + 1, Len(s)) = suf

\* s without its suffix suf, s itself when it does not end in suf.
TrimSuffix(s, suf) ==
  IF HasSuffix(s, suf) THEN SubSeq(s, 1, Len(s) - Len(suf)) ELSE s

\* C14: the directory a task clones its URL into is named by the URL's final
\* path segment without a trailing ".git", and with nothing else removed.
C14_NameIsSegmentSansGit ==
  \A t \in BagToSet(tasks) :
    t.path # <<>> =>
      t.path = Join(baseDir, TrimSuffix(LastSegment(t.r), GitSuffix))

\* C15: two tasks that are cloning distinct URLs at the same time write to
\* distinct directories, whose remote names are distinct too.
C15_DistinctDirs ==
  \A t, u \in BagToSet(tasks) :
    (t.r # u.r /\ t.pc = "clone" /\ u.pc = "clone") =>
      /\ PathOf(t.r) # PathOf(u.r)
      /\ RemoteName(PathOf(t.r)) # RemoteName(PathOf(u.r))

\* The Merger is between two paths or past its loop.
MergerIdle == mpc \in {"recv", "restore", "resterr", "close", "done"}

\* C16: the commands the Merger has run are, for the received paths in order,
\* remote add, fetch, merge, remote rm, none skipped whatever the outcomes;
\* when the Merger moves on from a path, and when the process has ended, every
\* received path has had its four commands, remote rm the last.
C16_FourStagesEach ==
  /\ \A k \in 1..Len(stagesRun) :
       /\ ((k - 1) \div 4) + 1 <= Len(received)
       /\ stagesRun[k].repo = received[((k - 1) \div 4) + 1]
       /\ stagesRun[k].cmd = Stages[((k - 1) % 4) + 1]
  /\ (MergerIdle \/ exit # "running") => Len(stagesRun) = 4 * Len(received)

\* The failed runs of stages, and the errors of stages sent on errCh.
FailedRuns == SelectSeq(stagesRun, LAMBDA x : ~x.ok)
StageErrs == SelectSeq(sent["merge"], LAMBDA e : e[2] = "stage")

\* C17: the errors of stages sent on the Merger's errCh are those of the failed
\* commands, one each, in order and with the command's path; when the process
\* has ended no failed command is left unreported and every path of a task
\* has been received by the Merger.
C17_StageFailuresReported ==
  /\ Len(FailedRuns) = Len(StageErrs) + (IF mpc = "errsend" THEN 1 ELSE 0)
  /\ \A k \in 1..Len(StageErrs) :
       /\ StageErrs[k][3] = FailedRuns[k].repo
       /\ Stages[StageErrs[k][4]] = FailedRuns[k].cmd
  /\ (exit # "running" /\ FailedRuns # <<>>) =>
       /\ Len(FailedRuns) = Len(StageErrs)
       /\ Len(received) = spawned

\* The errors of the restore of the working directory that main has logged.
RestoreErrs == SelectSeq(log, LAMBDA e : e[1] = "merge" /\ e[2] = "restore")

\* C18: a command of the Merger runs with the destination as the working
\* directory; the original directory is the working directory again only
\* when the loop over the paths is over, and errCh is closed after that; when
\* out is closed the working directory is the original one, or one error of
\* the restore has been logged.
C18_WorkingDirScoped ==
  /\ mpc \in {"recv", "exec", "errsend", "restore", "resterr"} => cwd = "dst"
  /\ errClosed["merge"] => mpc = "done"
  /\ outClosed => (cwd = "orig" /\ RestoreErrs = <<>>)
                     \/ (cwd = "dst" /\ Len(RestoreErrs) = 1)

SlotHolders == NumTasks({"clone", "errsend", "pathsend", "release"})

\* C20: the slots taken are those of the tasks between acquire and release,
\* whose clone succeeded or failed, never more than limit; the tasks that
\* have released, or are about to, are those whose path the Merger has
\* received; no slot is taken when the Cloner closes pathCh.
C20_SlotsReleased ==
  /\ limitLen = SlotHolders
  /\ SlotHolders <= limit
  /\ NumTasks({"release"}) + (spawned - cwg) = Len(received)
  /\ pathClosed => limitLen = 0

\* C20's case: a clone has failed and its error is sent; every slot is taken,
\* one of them by a task whose path has been received and which is about to
\* release it, and one more task waits for a slot.
C20_Witness ==
  /\ limitLen = limit /\ NumTasks({"acquire"}) = 1
  /\ NumTasks({"release"}) = 1 /\ sent["repos"] # <<>>

\* The first state of SpecSlots is a state of SpecLoad.
InitSlotsTasks ==
  /\ NumTasks({"pathsend"}) = NLoad - 2 /\ NumTasks({"acquire"}) = 2
  /\ limitLen = NLoad - 2 /\ attempts = NLoad - 2 /\ received = <<>>

=============================================================================
